---------------------------- MODULE Spec2Model ----------------------------
(***************************************************************************)
(* GEOMqm9 (src/datasets/geom_qm9_dataset.py): the dataset directory, the  *)
(* one-time ETL pass process(), the constructor, __getitem__ and the       *)
(* pairwise memo.                                                          *)
(*                                                                         *)
(* Tensors are sequences of rows.  A node row is <<smiles, atom>>, an edge *)
(* row is <<smiles, src, dst>>, a target cell is <<task, smiles>>.  The    *)
(* summary is a dict keyed by smiles, so a molecule's smiles is modelled   *)
(* by its position in the summary.                                         *)
(***************************************************************************)
EXTENDS Integers, Sequences, FiniteSets, TLC

\* ------------------------------------------------------------------ bounds
MaxMols == 2
MaxAtoms == 2
MaxMemo == 3

\* --------------------------------------------------------------- constants
return_type_options ==
    {"mol_graph", "complete_graph", "mol_graph3d", "complete_graph3d", "san_graph",
     "mol_complete_graph", "se3Transformer_graph", "se3Transformer_graph3d",
     "pairwise_distances", "pairwise_distances_squared", "pairwise_indices",
     "raw_features", "coordinates", "dist_embedding", "mol_id", "targets",
     "one_hot_bond_types", "edge_indices", "smiles", "atomic_number_long",
     "conformations", "uniqueconfs"}

target_types ==
    {"ensembleenergy", "ensembleentropy", "ensemblefreeenergy", "lowestenergy",
     "poplowestpct", "temperature", "uniqueconfs"}

DefaultReturnTypes == <<"mol_graph", "targets">>

\* ----------------------------------------------------------------- helpers
MinOf(a, b) == IF a < b THEN a ELSE b

\* python s[a:b] on a 0-based sequence, 0 <= a
Slice(s, a, b) == SubSeq(s, a + 1, MinOf(b, Len(s)))

RECURSIVE Cat(_)
\* torch.cat / list concatenation of a list of blocks
Cat(blocks) == IF blocks = <<>> THEN <<>> ELSE Head(blocks) \o Cat(Tail(blocks))

Contains(s, x) == \E i \in 1..Len(s) : s[i] = x

\* torch.arange(n)
Arange(n) == [k \in 1..n |-> k - 1]

\* torch.repeat_interleave(s, r)
RepeatInterleave(s, r) == [k \in 1..(Len(s) * r) |-> s[((k - 1) \div r) + 1]]

\* ------------------------------------------------------- the raw directory
\* One summary entry together with the pickle it points to.
NoFile == [isfile |-> FALSE, hasEnergy |-> FALSE, n |-> 0, bonds |-> <<>>]
NoEnergy == [isfile |-> TRUE, hasEnergy |-> FALSE, n |-> 0, bonds |-> <<>>]

\* rd_mol with n atoms bonded as a chain; bond k runs from atom k to atom k-1
Mol(n) == [isfile |-> TRUE, hasEnergy |-> TRUE, n |-> n,
           bonds |-> [k \in 1..(n - 1) |-> <<k, k - 1>>]]

Entries == {NoFile, NoEnergy} \cup {Mol(n) : n \in 1..MaxAtoms}

Summaries == UNION {[1..m -> Entries] : m \in 0..MaxMols}


\* ------------------------------------------------------------ process()
EmptyAcc ==
    [atom_slices |-> <<0>>, edge_slices |-> <<0>>,
     atom_one_hot |-> <<>>, atomic_numbers_long |-> <<>>, n_atoms_list |-> <<>>,
     e_features |-> <<>>, atom_float |-> <<>>,
     targets |-> [t \in target_types |-> <<>>],
     edge_indices |-> <<>>, coordinates |-> <<>>, smiles_list |-> <<>>,
     total_atoms |-> 0, total_edges |-> 0]

RECURSIVE ArgsortRest(_, _)
ArgsortRest(keys, S) ==
    IF S = {} THEN <<>>
    ELSE LET m == CHOOSE i \in S :
                    \A j \in S : keys[i] < keys[j] \/ (keys[i] = keys[j] /\ i <= j)
         IN <<m>> \o ArgsortRest(keys, S \ {m})

\* tensor.argsort()
Argsort(keys) == ArgsortRest(keys, DOMAIN keys)

\* row += [start, end] over the bonds
BondRow(bonds) == Cat([k \in 1..Len(bonds) |-> <<bonds[k][1], bonds[k][2]>>])

\* col += [end, start] over the bonds
BondCol(bonds) == Cat([k \in 1..Len(bonds) |-> <<bonds[k][2], bonds[k][1]>>])

\* perm = (edge_index[0] * n_atoms + edge_index[1]).argsort()
EdgePerm(row, col, n_atoms) == Argsort([i \in 1..Len(row) |-> row[i] * n_atoms + col[i]])

\* edge_index[:, perm], as a sequence of <<src, dst>> columns
EdgeIndex(row, col, perm) == [i \in 1..Len(perm) |-> <<row[perm[i]], col[perm[i]]>>]

\* the rows of one per-atom tensor of a molecule
AtomRows(smiles, n_atoms) == [a \in 1..n_atoms |-> <<smiles, a - 1>>]

\* torch.tensor(item).repeat_interleave(2, dim=0)[perm]; bond k's row is <<smiles, k>>
EdgeFeatureRows(smiles, bonds, perm) ==
    LET doubled == RepeatInterleave([k \in 1..Len(bonds) |-> <<smiles, k>>], 2)
    IN [i \in 1..Len(perm) |-> doubled[perm[i]]]

\* the offset advanced by the number of bonds, not of directed edges
AdvanceEdgesHalf(total_edges, row) == total_edges + (Len(row) \div 2)

\* total_edges += len(row)
AdvanceEdges(total_edges, row) == total_edges + Len(row)

\* the 'ensembleenergy' test left out
AcceptedNoEnergyCheck(e) == e.isfile

\* os.path.isfile(pickle_path) and 'ensembleenergy' in mol_dict
Accepted(e) == e.isfile /\ e.hasEnergy

\* one iteration of the loop over summary.items()
ProcessEntry(acc, smiles, e) ==
    IF ~Accepted(e) THEN acc
    ELSE LET n_atoms == e.n
             row == BondRow(e.bonds)
             col == BondCol(e.bonds)
             perm == EdgePerm(row, col, n_atoms)
             total_edges == AdvanceEdges(acc.total_edges, row)
             total_atoms == acc.total_atoms + n_atoms
         IN [atom_slices |-> Append(acc.atom_slices, total_atoms),
             edge_slices |-> Append(acc.edge_slices, total_edges),
             atom_one_hot |-> Append(acc.atom_one_hot, AtomRows(smiles, n_atoms)),
             atomic_numbers_long |-> acc.atomic_numbers_long \o AtomRows(smiles, n_atoms),
             n_atoms_list |-> Append(acc.n_atoms_list, n_atoms),
             e_features |-> Append(acc.e_features, EdgeFeatureRows(smiles, e.bonds, perm)),
             atom_float |-> Append(acc.atom_float, AtomRows(smiles, n_atoms)),
             targets |-> [t \in target_types |-> Append(acc.targets[t], <<t, smiles>>)],
             edge_indices |-> Append(acc.edge_indices, EdgeIndex(row, col, perm)),
             coordinates |-> Append(acc.coordinates, AtomRows(smiles, n_atoms)),
             smiles_list |-> Append(acc.smiles_list, smiles),
             total_atoms |-> total_atoms, total_edges |-> total_edges]

RECURSIVE ProcessLoop(_, _, _)
\* for smiles, sub_dic in summary.items()
ProcessLoop(summ, i, acc) ==
    IF i > Len(summ) THEN acc
    ELSE ProcessLoop(summ, i + 1, ProcessEntry(acc, i, summ[i]))

\* the data_dict that torch.save writes
DataDict(acc) ==
    [e_features |-> Cat(acc.e_features),
     atom_float |-> Cat(acc.atom_float),
     targets |-> [t \in target_types |->
                     [m \in 1..Len(acc.targets[t]) |-> <<acc.targets[t][m]>>]],
     smiles |-> acc.smiles_list,
     n_atoms |-> acc.n_atoms_list,
     atom_slices |-> acc.atom_slices,
     edge_slices |-> acc.edge_slices,
     atomic_number |-> Cat(acc.atom_one_hot),
     atomic_numbers_long |-> acc.atomic_numbers_long,
     edge_indices |-> Cat(acc.edge_indices),
     coordinates |-> Cat(acc.coordinates)]

\* process(): torch.cat of an empty list raises, so a summary without an
\* accepted molecule ends in an exception before anything is saved
Process(summ) ==
    LET acc == ProcessLoop(summ, 1, EmptyAcc)
    IN IF acc.atom_float = <<>>
       THEN [ok |-> FALSE, exc |-> "RuntimeError", acc |-> acc, data |-> DataDict(EmptyAcc)]
       ELSE [ok |-> TRUE, exc |-> "", acc |-> acc, data |-> DataDict(acc)]

NoData == DataDict(EmptyAcc)

\* ------------------------------------------------------------ tensors, graphs
\* an optional tensor: None, or its rows
NoneTensor == [none |-> TRUE, rows |-> <<>>]
Tensor(rows) == [none |-> FALSE, rows |-> rows]

\* a row of torch.zeros
ZeroRow == <<0, 0>>

\* what data_by_type hands back: a graph, a tensor or a plain value
NoVal ==
    [kind |-> "none", num_nodes |-> 0, src |-> <<>>, dst |-> <<>>,
     bsrc |-> <<>>, bdst |-> <<>>, f |-> <<>>, x |-> <<>>, w |-> <<>>, rows |-> <<>>]

\* number of nodes DGL infers when num_nodes is not given: largest node id plus 1
InferNodes(ids) ==
    IF ids = <<>> THEN 0
    ELSE 1 + (CHOOSE m \in {ids[i] : i \in 1..Len(ids)} :
                 \A i \in 1..Len(ids) : ids[i] <= m)

\* dgl.graph((src, dst), num_nodes=num_nodes)
DglGraph(src, dst, num_nodes) ==
    [NoVal EXCEPT !.kind = "graph", !.num_nodes = num_nodes, !.src = src, !.dst = dst]

\* dgl.graph((src, dst))
DglGraphInferred(src, dst) == DglGraph(src, dst, InferNodes(src \o dst))

\* dgl.heterograph({('atom','bond','atom'): (bsrc, bdst), ('atom','complete','atom'): (src, dst)})
DglHeteroGraph(bsrc, bdst, src, dst) ==
    [NoVal EXCEPT !.kind = "heterograph",
                  !.num_nodes = InferNodes(bsrc \o bdst \o src \o dst),
                  !.bsrc = bsrc, !.bdst = bdst, !.src = src, !.dst = dst]

Column(cols, c) == [i \in 1..Len(cols) |-> cols[i][c]]

\* ------------------------------------------------------------ get_pairwise
RECURSIVE PairwiseDst(_, _)
\* torch.cat([torch.cat([arange(n)[:idx], arange(n)[idx + 1:]]) for idx in range(n)])
PairwiseDst(n, idx) ==
    IF idx >= n THEN <<>>
    ELSE (Slice(Arange(n), 0, idx) \o Slice(Arange(n), idx + 1, n)) \o PairwiseDst(n, idx + 1)

\* src = torch.repeat_interleave(torch.arange(n_atoms), n_atoms - 1)
PairwiseSrc(n) == RepeatInterleave(Arange(n), n - 1)

\* A tensor hashes by object identity, and every n_atoms handed to get_pairwise
\* is a 0-d tensor freshly indexed out of meta_dict['n_atoms'].  A memo key is
\* therefore the identity of a tensor object; the entry keeps the atom count
\* the tensor holds.  A new tensor has an identity no live key has.
NewTensor(pairwise) ==
    1 + (CHOOSE m \in DOMAIN pairwise \cup {0} : \A k \in DOMAIN pairwise : k <= m)

\* get_pairwise(n_atoms), n_atoms being the tensor object `key` of value n
get_pairwise(pairwise, key, n) ==
    IF key \in DOMAIN pairwise
    THEN [pairwise |-> pairwise, src |-> pairwise[key].src, dst |-> pairwise[key].dst]
    ELSE LET src == PairwiseSrc(n)
             dst == PairwiseDst(n, 0)
         IN [pairwise |-> pairwise @@ (key :> [n |-> n, src |-> src, dst |-> dst]),
             src |-> src, dst |-> dst]

\* ------------------------------------------------------------ __init__
NoDs ==
    [alive |-> FALSE, return_types |-> <<>>,
     features_tensor |-> NoneTensor, features3d_tensor |-> NoneTensor,
     e_features_tensor |-> NoneTensor, e_features3d_tensor |-> NoneTensor,
     coordinates |-> <<>>, conformations |-> NoneTensor, edge_indices |-> <<>>,
     meta_dict |-> [smiles |-> <<>>, edge_slices |-> <<>>, atom_slices |-> <<>>,
                    n_atoms |-> <<>>, uniqueconfs |-> <<>>],
     prefetch_graphs |-> FALSE,
     mol_graphs |-> <<>>, complete_graphs |-> <<>>, mol_complete_graphs |-> <<>>,
     pairwise |-> <<>>, targets |-> NoneTensor]

\* the validation loop left out
ReturnTypesOkUnchecked(return_types) == TRUE

\* for return_type in self.return_types: if not return_type in self.return_type_options
ReturnTypesOk(return_types) ==
    \A i \in 1..Len(return_types) : return_types[i] \in return_type_options

\* the existence test left out: process() on every construction
NeedsProcessAlways(f) == TRUE

\* not os.path.exists(os.path.join(self.directory, 'processed', self.processed_file))
NeedsProcess(f) == ~f.exists

\* the mol_graphs list
PrefetchMolGraphs(data) ==
    [m \in 1..(Len(data.edge_slices) - 1) |->
        LET cols == Slice(data.edge_indices, data.edge_slices[m], data.edge_slices[m + 1])
        IN DglGraph(Column(cols, 1), Column(cols, 2), data.n_atoms[m])]

RECURSIVE PrefetchComplete(_, _, _, _)
\* the complete_graphs list, and the memo its get_pairwise calls leave
PrefetchComplete(data, m, graphs, pairwise) ==
    IF m > Len(data.edge_slices) - 1 THEN [graphs |-> graphs, pairwise |-> pairwise]
    ELSE LET p == get_pairwise(pairwise, NewTensor(pairwise), data.n_atoms[m])
         IN PrefetchComplete(data, m + 1,
                             Append(graphs, DglGraphInferred(p.src, p.dst)), p.pairwise)

RECURSIVE PrefetchMolComplete(_, _, _, _)
\* the mol_complete_graphs list, and the memo its get_pairwise calls leave
PrefetchMolComplete(data, m, graphs, pairwise) ==
    IF m > Len(data.edge_slices) - 1 THEN [graphs |-> graphs, pairwise |-> pairwise]
    ELSE LET p == get_pairwise(pairwise, NewTensor(pairwise), data.n_atoms[m])
         IN PrefetchMolComplete(data, m + 1,
                                Append(graphs, DglHeteroGraph(p.src, p.dst, p.src, p.dst)),
                                p.pairwise)

AnyIn(return_types, names) == \E i \in 1..Len(return_types) : return_types[i] \in names

\* (self.targets - self.targets_mean) / self.targets_std, normalize at its default True
Normalize(column) ==
    [m \in 1..Len(column) |->
        [c \in 1..Len(column[m]) |-> <<column[m][c][1], column[m][c][2], "normalized">>]]

\* self.targets = data_dict[target_tasks[0]], then normalised
SelectTargets(data, target_tasks) == Normalize(data.targets[target_tasks[1]])

\* __init__ from torch.load on: the dataset object, or the exception raised
Load(args, return_types, data) ==
    LET wantMol == args.prefetch_graphs /\ AnyIn(return_types,
                       {"mol_graph", "mol_graph3d", "se3Transformer_graph",
                        "se3Transformer_graph3d"})
        wantComplete == args.prefetch_graphs /\ AnyIn(return_types,
                       {"complete_graph", "complete_graph3d", "san_graph"})
        wantMolComplete == args.prefetch_graphs /\ AnyIn(return_types,
                       {"mol_complete_graph", "mol_complete_graph3d"})
        c == IF wantComplete THEN PrefetchComplete(data, 1, <<>>, <<>>)
             ELSE [graphs |-> <<>>, pairwise |-> <<>>]
        mc == IF wantMolComplete THEN PrefetchMolComplete(data, 1, <<>>, c.pairwise)
              ELSE [graphs |-> <<>>, pairwise |-> c.pairwise]
        built ==
            [alive |-> TRUE, return_types |-> return_types,
             features_tensor |-> IF args.features = <<>> THEN NoneTensor
                                 ELSE Tensor(data.atom_float),
             features3d_tensor |-> NoneTensor,
             e_features_tensor |-> IF args.e_features = <<>> THEN NoneTensor
                                   ELSE Tensor(data.e_features),
             e_features3d_tensor |-> NoneTensor,
             coordinates |-> data.coordinates,
             conformations |-> IF Contains(return_types, "conformations")
                               THEN Tensor(data.coordinates) ELSE NoneTensor,
             edge_indices |-> data.edge_indices,
             meta_dict |-> [smiles |-> data.smiles, edge_slices |-> data.edge_slices,
                            atom_slices |-> data.atom_slices, n_atoms |-> data.n_atoms,
                            uniqueconfs |-> data.targets["uniqueconfs"]],
             prefetch_graphs |-> args.prefetch_graphs,
             mol_graphs |-> IF wantMol THEN PrefetchMolGraphs(data) ELSE <<>>,
             complete_graphs |-> c.graphs,
             mol_complete_graphs |-> mc.graphs,
             pairwise |-> mc.pairwise,
             targets |-> NoneTensor]
    IN IF Contains(return_types, "san_graph")
       THEN [ok |-> FALSE, exc |-> "KeyError", ds |-> NoDs]       \* data_dict['eig_vals']
       ELSE IF ~Contains(return_types, "targets")
       THEN [ok |-> TRUE, exc |-> "", ds |-> built]
       ELSE IF args.target_tasks.none
       THEN [ok |-> FALSE, exc |-> "TypeError", ds |-> NoDs]      \* None[0]
       ELSE IF args.target_tasks.list = <<>>
       THEN [ok |-> FALSE, exc |-> "IndexError", ds |-> NoDs]
       ELSE IF args.target_tasks.list[1] \notin target_types
       THEN [ok |-> FALSE, exc |-> "KeyError", ds |-> NoDs]       \* data_dict[target_tasks[0]]
       ELSE [ok |-> TRUE, exc |-> "",
             ds |-> [built EXCEPT !.targets =
                        Tensor(SelectTargets(data, args.target_tasks.list))]]

\* __init__ from the existence test on, for a validated return_types list
InitAfterValidation(args, return_types, f, needs, p) ==
    IF needs /\ ~p.ok
    THEN [exc |-> p.exc, processRan |-> TRUE, saved |-> FALSE, loaded |-> FALSE,
          file |-> f, acc |-> p.acc, ds |-> NoDs]
    ELSE LET l == Load(args, return_types, IF needs THEN p.data ELSE f.data)
         IN [exc |-> l.exc, processRan |-> needs, saved |-> needs, loaded |-> TRUE,
             file |-> IF needs THEN [exists |-> TRUE, data |-> p.data] ELSE f,
             acc |-> p.acc, ds |-> l.ds]

\* __init__: the outcome of one construction against the directory
GEOMqm9_init(args, f, summ) ==
    LET return_types == IF args.return_types.none THEN DefaultReturnTypes
                        ELSE args.return_types.list
    IN IF ~ReturnTypesOk(return_types)
       THEN [exc |-> "Exception", processRan |-> FALSE, saved |-> FALSE, loaded |-> FALSE,
             file |-> f, acc |-> EmptyAcc, ds |-> NoDs]
       ELSE InitAfterValidation(args, return_types, f, NeedsProcess(f),
                                IF NeedsProcess(f) THEN Process(summ) ELSE Process(<<>>))

\* ------------------------------------------------------------ data_by_type
Ok(val, pairwise) == [ok |-> TRUE, exc |-> "", val |-> val, pairwise |-> pairwise]
Raise(exc, pairwise) == [ok |-> FALSE, exc |-> exc, val |-> NoVal, pairwise |-> pairwise]

\* get_graph
get_graph(ds, idx, e_start, e_end, n_atoms) ==
    IF ds.prefetch_graphs THEN ds.mol_graphs[idx + 1]
    ELSE LET cols == Slice(ds.edge_indices, e_start, e_end)
         IN DglGraph(Column(cols, 1), Column(cols, 2), n_atoms)

\* get_complete_graph: the graph and the memo afterwards
get_complete_graph(ds, pairwise, idx, key, n_atoms) ==
    IF ds.prefetch_graphs THEN [g |-> ds.complete_graphs[idx + 1], pairwise |-> pairwise]
    ELSE LET p == get_pairwise(pairwise, key, n_atoms)
         IN [g |-> DglGraphInferred(p.src, p.dst), pairwise |-> p.pairwise]

\* get_mol_complete_graph: the graph and the memo afterwards
get_mol_complete_graph(ds, pairwise, idx, e_start, e_end, key, n_atoms) ==
    IF ds.prefetch_graphs THEN [g |-> ds.mol_complete_graphs[idx + 1], pairwise |-> pairwise]
    ELSE LET cols == Slice(ds.edge_indices, e_start, e_end)
             p == get_pairwise(pairwise, key, n_atoms)
         IN [g |-> DglHeteroGraph(Column(cols, 1), Column(cols, 2), p.src, p.dst),
             pairwise |-> p.pairwise]

\* e_features[src * n_atoms + dst]: a bond's feature row on its pair, zeros elsewhere
CompleteEdgeFeatures(bond_features, cols, src, dst) ==
    [k \in 1..Len(src) |->
        IF \E j \in 1..Len(cols) : cols[j] = <<src[k], dst[k]>>
        THEN bond_features[CHOOSE j \in 1..Len(cols) : cols[j] = <<src[k], dst[k]>>]
        ELSE ZeroRow]

\* g.ndata['f'] = features[start: start + n_atoms]; g.ndata['x'] = coordinates[...]
\* (DGL refuses node data whose row count is not the graph's number of nodes)
SetNodeData(ds, g, features, start, n_atoms, pairwise) ==
    IF features.none THEN Raise("TypeError", pairwise)
    ELSE LET f == Slice(features.rows, start, start + n_atoms)
             x == Slice(ds.coordinates, start, start + n_atoms)
         IN IF Len(f) # g.num_nodes \/ Len(x) # g.num_nodes
            THEN Raise("DGLError", pairwise)
            ELSE Ok([g EXCEPT !.f = f, !.x = x], pairwise)

\* g.edata['w'] = e_features[e_start: e_end] on a bonded graph
SetBondData(ds, r, e_features, e_start, e_end) ==
    IF ~r.ok \/ e_features.none THEN r
    ELSE LET w == Slice(e_features.rows, e_start, e_end)
             edges == IF r.val.kind = "heterograph" THEN r.val.bsrc ELSE r.val.src
         IN IF Len(w) # Len(edges) THEN Raise("DGLError", r.pairwise)
            ELSE Ok([r.val EXCEPT !.w = w], r.pairwise)

\* the e_features branch of 'complete_graph' / 'complete_graph3d'
SetCompleteData(ds, r, e_features, e_start, e_end, key, n_atoms) ==
    IF ~r.ok \/ e_features.none THEN r
    ELSE LET bond_features == Slice(e_features.rows, e_start, e_end)
             cols == Slice(ds.edge_indices, e_start, e_end)
             p == get_pairwise(r.pairwise, key, n_atoms)
             w == CompleteEdgeFeatures(bond_features, cols, p.src, p.dst)
         IN IF Len(w) # Len(r.val.src) THEN Raise("DGLError", p.pairwise)
            ELSE Ok([r.val EXCEPT !.w = w], p.pairwise)

\* data_by_type; `key` is the identity of the n_atoms tensor
data_by_type(ds, pairwise, idx, return_type, e_start, e_end, start, key, n_atoms) ==
    CASE return_type = "conformations" ->
           Ok([NoVal EXCEPT !.kind = "conformations",
                            !.rows = Slice(ds.conformations.rows, start, start + n_atoms)],
              pairwise)
      [] return_type = "mol_graph" ->
           SetBondData(ds, SetNodeData(ds, get_graph(ds, idx, e_start, e_end, n_atoms),
                                       ds.features_tensor, start, n_atoms, pairwise),
                       ds.e_features_tensor, e_start, e_end)
      [] return_type = "mol_graph3d" ->
           SetBondData(ds, SetNodeData(ds, get_graph(ds, idx, e_start, e_end, n_atoms),
                                       ds.features3d_tensor, start, n_atoms, pairwise),
                       ds.e_features3d_tensor, e_start, e_end)
      [] return_type = "complete_graph" ->
           LET c == get_complete_graph(ds, pairwise, idx, key, n_atoms)
           IN SetCompleteData(ds, SetNodeData(ds, c.g, ds.features_tensor, start, n_atoms,
                                              c.pairwise),
                              ds.e_features_tensor, e_start, e_end, key, n_atoms)
      [] return_type = "complete_graph3d" ->
           LET c == get_complete_graph(ds, pairwise, idx, key, n_atoms)
           IN SetCompleteData(ds, SetNodeData(ds, c.g, ds.features3d_tensor, start, n_atoms,
                                              c.pairwise),
                              ds.e_features3d_tensor, e_start, e_end, key, n_atoms)
      [] return_type = "mol_complete_graph" ->
           LET c == get_mol_complete_graph(ds, pairwise, idx, e_start, e_end, key, n_atoms)
           IN SetBondData(ds, SetNodeData(ds, c.g, ds.features_tensor, start, n_atoms,
                                          c.pairwise),
                          ds.e_features_tensor, e_start, e_end)
      [] return_type = "san_graph" ->
           \* __init__ raises on data_dict['eig_vals'], so no dataset holds this type
           LET c == get_complete_graph(ds, pairwise, idx, key, n_atoms)
           IN Raise("AttributeError", c.pairwise)
      [] return_type \in {"se3Transformer_graph", "se3Transformer_graph3d"} ->
           LET three == return_type = "se3Transformer_graph3d"
           IN SetBondData(ds, SetNodeData(ds, get_graph(ds, idx, e_start, e_end, n_atoms),
                                          IF three THEN ds.features3d_tensor
                                          ELSE ds.features_tensor,
                                          start, n_atoms, pairwise),
                          IF three THEN ds.e_features3d_tensor ELSE ds.e_features_tensor,
                          e_start, e_end)
      [] return_type = "raw_features" ->
           IF ds.features_tensor.none THEN Raise("TypeError", pairwise)
           ELSE Ok([NoVal EXCEPT !.kind = "raw_features",
                                 !.rows = Slice(ds.features_tensor.rows, start,
                                                start + n_atoms)], pairwise)
      [] return_type = "coordinates" ->
           Ok([NoVal EXCEPT !.kind = "coordinates",
                            !.rows = Slice(ds.coordinates, start, start + n_atoms)], pairwise)
      [] return_type = "uniqueconfs" ->
           Ok([NoVal EXCEPT !.kind = "uniqueconfs",
                            !.rows = ds.meta_dict.uniqueconfs[idx + 1]], pairwise)
      [] return_type = "targets" ->
           Ok([NoVal EXCEPT !.kind = "targets", !.rows = ds.targets.rows[idx + 1]], pairwise)
      [] return_type = "edge_indices" ->
           Raise("KeyError", pairwise)                    \* self.meta_dict['edge_indices']
      [] return_type = "smiles" ->
           Ok([NoVal EXCEPT !.kind = "smiles",
                            !.rows = <<ds.meta_dict.smiles[idx + 1]>>], pairwise)
      [] OTHER -> Raise("Exception", pairwise)

RECURSIVE getitem_loop(_, _, _, _, _, _)
\* for return_type in self.return_types: data.append(self.data_by_type(...))
getitem_loop(ds, pairwise, idx, key, i, data) ==
    IF i > Len(ds.return_types)
    THEN [ok |-> TRUE, exc |-> "", data |-> data, pairwise |-> pairwise]
    ELSE LET r == data_by_type(ds, pairwise, idx, ds.return_types[i],
                               ds.meta_dict.edge_slices[idx + 1],
                               ds.meta_dict.edge_slices[idx + 2],
                               ds.meta_dict.atom_slices[idx + 1],
                               key, ds.meta_dict.n_atoms[idx + 1])
         IN IF r.ok THEN getitem_loop(ds, r.pairwise, idx, key, i + 1, Append(data, r.val))
            ELSE [ok |-> FALSE, exc |-> r.exc, data |-> <<>>, pairwise |-> r.pairwise]

\* __getitem__(idx): n_atoms = self.meta_dict['n_atoms'][idx] is a new tensor object
getitem(ds, idx) == getitem_loop(ds, ds.pairwise, idx, NewTensor(ds.pairwise), 1, <<>>)

\* __len__
len(ds) == Len(ds.meta_dict.smiles)

\* ------------------------------------------------------------ the state machine
VARIABLES
    summary,    \* summary_qm9.json with the pickles it points to (never written)
    file,       \* processed/geom_qm9_processed.pt: whether it exists, and its data_dict
    ds,         \* the dataset object of the latest construction, if it completed
    etl,        \* the locals of the latest process() run when its loop ended
    lastCtor,   \* the latest constructor call: its arguments and what it did
    lastItem,   \* the latest __getitem__ call on ds and what it returned
    hist        \* history: completed constructions, process() runs, torch.save calls

vars == <<summary, file, ds, etl, lastCtor, lastItem, hist>>

None == [none |-> TRUE, list |-> <<>>]
Some(l) == [none |-> FALSE, list |-> l]

\* The constructor arguments the model draws from.  features3d and
\* e_features3d stay at their default [], normalize at True, transform at None.
PairTypes == {"complete_graph", "targets", "smiles"}
ReturnTypeLists ==
    {<<>>, <<"smiles", "bogus">>}
    \cup {<<t>> : t \in return_type_options \cup {"bogus"}}
    \cup {<<a, b>> : a \in PairTypes, b \in PairTypes}
ReturnTypeArgs == {None} \cup {Some(l) : l \in ReturnTypeLists}
TargetTaskArgs ==
    {None, Some(<<"ensembleenergy">>), Some(<<"lowestenergy", "ensembleenergy">>)}
FeatureArgs == {<<>>, <<"degree">>}
EFeatureArgs == {<<>>, <<"stereo">>}

\* the return types whose code reads features, e_features or prefetch_graphs
FeatureTypes ==
    {"mol_graph", "mol_graph3d", "complete_graph", "complete_graph3d", "san_graph",
     "mol_complete_graph", "se3Transformer_graph", "se3Transformer_graph3d",
     "raw_features"}

EffectiveTypes(a) ==
    IF a.return_types.none THEN DefaultReturnTypes ELSE a.return_types.list

\* An argument the requested return types never read is left at its default.
CtorArgs ==
    {a \in [return_types : ReturnTypeArgs, target_tasks : TargetTaskArgs,
            features : FeatureArgs, e_features : EFeatureArgs,
            prefetch_graphs : BOOLEAN] :
        /\ Contains(EffectiveTypes(a), "targets") \/ a.target_tasks = None
        /\ AnyIn(EffectiveTypes(a), FeatureTypes)
             \/ (a.features = <<>> /\ a.e_features = <<>> /\ a.prefetch_graphs)}

NoCtor ==
    [called |-> FALSE,
     args |-> [return_types |-> None, target_tasks |-> None, features |-> <<>>,
               e_features |-> <<>>, prefetch_graphs |-> TRUE],
     fileAtStart |-> FALSE, afterCompleted |-> FALSE,
     processRan |-> FALSE, loaded |-> FALSE, exc |-> ""]

NoItem == [called |-> FALSE, idx |-> 0, ok |-> FALSE, exc |-> "", data |-> <<>>]

Saturate(n) == IF n < 2 THEN n + 1 ELSE n

Init ==
    /\ summary \in Summaries
    /\ file = [exists |-> FALSE, data |-> NoData]
    /\ ds = NoDs
    /\ etl = EmptyAcc
    /\ lastCtor = NoCtor
    /\ lastItem = NoItem
    /\ hist = [completed |-> FALSE, runs |-> 0, saves |-> 0]

\* GEOMqm9(**args), called while no dataset object is held; a construction
\* that raises leaves none
Construct(args) ==
    /\ ~ds.alive
    /\ ~lastCtor.called
    /\ \E r \in {GEOMqm9_init(args, file, summary)} :
          /\ file' = r.file
          /\ ds' = r.ds
          /\ etl' = IF r.processRan THEN r.acc ELSE etl
          /\ lastCtor' = [called |-> TRUE, args |-> args, fileAtStart |-> file.exists,
                          afterCompleted |-> hist.completed,
                          processRan |-> r.processRan, loaded |-> r.loaded, exc |-> r.exc]
          /\ lastItem' = NoItem
          /\ hist' = [completed |-> hist.completed \/ r.exc = "",
                      runs |-> IF r.processRan THEN Saturate(hist.runs) ELSE hist.runs,
                      saves |-> IF r.saved THEN Saturate(hist.saves) ELSE hist.saves]
    /\ UNCHANGED summary

\* ds[idx] for an idx between 0 and len(ds) - 1
GetItem(idx) ==
    /\ ds.alive
    /\ idx \in 0..(len(ds) - 1)
    /\ Cardinality(DOMAIN ds.pairwise) < MaxMemo
    /\ \E r \in {getitem(ds, idx)} :
          /\ ds' = [ds EXCEPT !.pairwise = r.pairwise]
          /\ lastItem' = [called |-> TRUE, idx |-> idx, ok |-> r.ok, exc |-> r.exc,
                          data |-> r.data]
    /\ UNCHANGED <<summary, file, etl, lastCtor, hist>>

\* the caller drops the dataset object (or the failed call) before the next construction
Release ==
    /\ lastCtor.called
    /\ ds' = NoDs
    /\ lastCtor' = NoCtor
    /\ lastItem' = NoItem
    /\ UNCHANGED <<summary, file, etl, hist>>

Next ==
    \/ \E args \in CtorArgs : Construct(args)
    \/ \E idx \in 0..(MaxMols - 1) : GetItem(idx)
    \/ Release

Spec == Init /\ [][Next]_vars

\* ------------------------------------------------------------ the claims
\* the return_types list the latest construction validated
RequestedTypes == EffectiveTypes(lastCtor.args)

AllSupported == \A i \in 1..Len(RequestedTypes) : RequestedTypes[i] \in return_type_options

\* the summary positions process() accepts, in order
AcceptedEntries == {i \in 1..Len(summary) : summary[i].isfile /\ summary[i].hasEnergy}

\* C1 as stated: process() runs in a construction exactly when the processed
\* file is absent at its start; after a completed construction the file exists
\* and every later construction loads it without running process(); the ETL
\* pass runs at most once.
C1_AsStated ==
    lastCtor.called =>
        /\ lastCtor.processRan <=> ~lastCtor.fileAtStart
        /\ hist.completed => file.exists
        /\ lastCtor.afterCompleted => (lastCtor.loaded /\ ~lastCtor.processRan)
        /\ hist.runs <= 1

\* C1 amended: process() runs in a construction exactly when return_types
\* passes validation and the processed file is absent at its start; after a
\* completed construction the file exists and every later construction that
\* passes validation loads it without running process(); process() saves the
\* file at most once.
C1_ProcessOnlyWhenAbsent ==
    lastCtor.called =>
        /\ lastCtor.processRan <=> (AllSupported /\ ~lastCtor.fileAtStart)
        /\ hist.completed => file.exists
        /\ (lastCtor.afterCompleted /\ AllSupported) =>
               (lastCtor.loaded /\ ~lastCtor.processRan)
        /\ lastCtor.exc = "" => (lastCtor.loaded /\ file.exists)
        /\ hist.saves <= 1

\* a construction after a completed one, which loaded the file and did not process
C1_Witness ==
    /\ lastCtor.called /\ lastCtor.afterCompleted /\ lastCtor.fileAtStart
    /\ lastCtor.loaded /\ ~lastCtor.processRan /\ lastCtor.exc = ""
    /\ hist.runs = 1 /\ hist.saves = 1

\* C2: for a dataset whose constructor accepted return_types, __getitem__(idx)
\* with 0 <= idx <= len - 1 raises nothing and returns one element per entry
\* of return_types, in their order.
C2_EveryAcceptedTypeServed ==
    lastItem.called =>
        /\ lastItem.ok
        /\ Len(lastItem.data) = Len(ds.return_types)
        /\ \A j \in 1..Len(lastItem.data) :
              \/ lastItem.data[j].kind = ds.return_types[j]
              \/ lastItem.data[j].kind \in {"graph", "heterograph"}

\* C3: the targets returned for a molecule hold one value per task of
\* target_tasks, in the order of target_tasks.
C3_TargetsFollowTargetTasks ==
    (lastItem.called /\ lastItem.ok) =>
        \A j \in 1..Len(lastItem.data) :
            lastItem.data[j].kind = "targets" =>
                /\ Len(lastItem.data[j].rows) = Len(lastCtor.args.target_tasks.list)
                /\ \A c \in 1..Len(lastItem.data[j].rows) :
                      lastItem.data[j].rows[c][1] = lastCtor.args.target_tasks.list[c]

\* C4: a construction with return_types and target_tasks omitted, over a
\* directory with at least one accepted molecule, succeeds with return_types
\* ['mol_graph', 'targets'], and __getitem__ then returns (mol_graph, targets).
C4_DefaultsConstruct ==
    (/\ lastCtor.called
     /\ lastCtor.args.return_types = None /\ lastCtor.args.target_tasks = None
     /\ AcceptedEntries # {}) =>
        /\ lastCtor.exc = ""
        /\ ds.alive /\ ds.return_types = DefaultReturnTypes
        /\ lastItem.called =>
              /\ lastItem.ok
              /\ Len(lastItem.data) = 2
              /\ lastItem.data[1].kind = "graph" /\ lastItem.data[2].kind = "targets"

\* C5: a construction whose return_types holds an unsupported entry raises
\* before process() and before any load, and leaves the processed file as it
\* was (none is created).
C5_InvalidTypeRaisesFirst ==
    (lastCtor.called /\ ~AllSupported) =>
        /\ lastCtor.exc = "Exception"
        /\ ~lastCtor.processRan /\ ~lastCtor.loaded
        /\ file.exists = lastCtor.fileAtStart
        /\ ~ds.alive

\* an unsupported return type handed to a construction over a directory
\* that holds no processed file
C5_Witness ==
    /\ lastCtor.called /\ ~AllSupported /\ ~lastCtor.fileAtStart
    /\ AcceptedEntries # {} /\ ~file.exists

\* C6: after process() the offset tables fit the concatenated tensors: both
\* have M + 1 entries for M accepted molecules and start at 0, consecutive
\* atom_slices differ by n_atoms[i], consecutive edge_slices by twice the
\* bonds of molecule i, both are non-decreasing, and they end at the number of
\* rows of the atom tensors and the number of columns of edge_indices.
C6_OffsetTablesConsistent ==
    file.exists =>
        LET d == file.data
            M == Cardinality(AcceptedEntries)
        IN /\ Len(d.atom_slices) = M + 1 /\ Len(d.edge_slices) = M + 1
           /\ Len(d.n_atoms) = M /\ Len(d.smiles) = M
           /\ d.atom_slices[1] = 0 /\ d.edge_slices[1] = 0
           /\ \A i \in 1..M :
                 /\ d.atom_slices[i + 1] - d.atom_slices[i] = d.n_atoms[i]
                 /\ d.n_atoms[i] = summary[d.smiles[i]].n
                 /\ d.edge_slices[i + 1] - d.edge_slices[i]
                        = 2 * Len(summary[d.smiles[i]].bonds)
                 /\ d.atom_slices[i] <= d.atom_slices[i + 1]
                 /\ d.edge_slices[i] <= d.edge_slices[i + 1]
           /\ d.atom_slices[M + 1] = Len(d.coordinates)
           /\ d.atom_slices[M + 1] = Len(d.atom_float)
           /\ d.atom_slices[M + 1] = Len(d.atomic_number)
           /\ d.atom_slices[M + 1] = Len(d.atomic_numbers_long)
           /\ d.edge_slices[M + 1] = Len(d.edge_indices)
           /\ d.edge_slices[M + 1] = Len(d.e_features)

\* a processed file of two molecules, the second one with a bond
C6_Witness ==
    /\ file.exists
    /\ Len(file.data.smiles) = 2
    /\ file.data.edge_slices[3] > file.data.edge_slices[2]
    /\ file.data.atom_slices[2] > 0

\* the ordered pairs (i, j), i # j, below n, by i then j
PairsInOrder(n, src, dst) ==
    /\ Len(src) = n * (n - 1) /\ Len(dst) = n * (n - 1)
    /\ {<<src[k], dst[k]>> : k \in 1..Len(src)}
           = {<<i, j>> \in (0..(n - 1)) \X (0..(n - 1)) : i # j}
    /\ \A k \in 1..(Len(src) - 1) :
          src[k] < src[k + 1] \/ (src[k] = src[k + 1] /\ dst[k] < dst[k + 1])

\* C7: for every atom count n >= 1, get_pairwise(n) lists every ordered pair
\* (i, j), i # j, below n exactly once, by i then j, and the complete graph
\* built from it has n nodes, so that the molecule's n rows of node features
\* and coordinates are attached.
C7_CompleteGraphOnNNodes ==
    /\ \A k \in DOMAIN ds.pairwise :
          PairsInOrder(ds.pairwise[k].n, ds.pairwise[k].src, ds.pairwise[k].dst)
    /\ \A m \in 1..Len(ds.complete_graphs) :
          ds.complete_graphs[m].num_nodes = ds.meta_dict.n_atoms[m]
    /\ (/\ lastItem.called
        /\ ds.return_types = <<"complete_graph">>
        /\ ~ds.features_tensor.none) =>
           /\ lastItem.ok
           /\ lastItem.data[1].num_nodes = ds.meta_dict.n_atoms[lastItem.idx + 1]
           /\ Len(lastItem.data[1].f) = ds.meta_dict.n_atoms[lastItem.idx + 1]
           /\ PairsInOrder(ds.meta_dict.n_atoms[lastItem.idx + 1],
                           lastItem.data[1].src, lastItem.data[1].dst)

\* C8: a summary entry without a pickle file or without 'ensembleenergy' adds
\* nothing, so the per-molecule lists of process() hold exactly the accepted
\* entries, one each and in order, the slice tables one more, and __len__ is
\* the number of accepted molecules.
C8_ListsAligned ==
    /\ hist.runs > 0 =>
          LET M == Cardinality(AcceptedEntries)
          IN /\ Len(etl.smiles_list) = M
             /\ {etl.smiles_list[i] : i \in 1..Len(etl.smiles_list)} = AcceptedEntries
             /\ \A i \in 1..(Len(etl.smiles_list) - 1) :
                   etl.smiles_list[i] < etl.smiles_list[i + 1]
             /\ Len(etl.n_atoms_list) = M
             /\ \A t \in target_types : Len(etl.targets[t]) = M
             /\ Len(etl.coordinates) = M /\ Len(etl.edge_indices) = M
             /\ Len(etl.atom_float) = M /\ Len(etl.e_features) = M
             /\ Len(etl.atom_one_hot) = M
             /\ Len(etl.atom_slices) = M + 1 /\ Len(etl.edge_slices) = M + 1
    /\ ds.alive => len(ds) = Cardinality(AcceptedEntries)

\* a dataset built by process() over a summary whose first entry has a pickle
\* without 'ensembleenergy' and whose second entry is accepted
C8_Witness ==
    /\ ds.alive /\ lastCtor.processRan
    /\ Len(summary) = 2
    /\ summary[1].isfile /\ ~summary[1].hasEnergy
    /\ AcceptedEntries = {2}
    /\ len(ds) = 1 /\ etl.smiles_list = <<2>>

\* C9: the pairwise memo holds one entry per distinct atom count requested; a
\* count requested before is answered from the memo and adds no entry.
C9_OneEntryPerAtomCount ==
    /\ \A k1 \in DOMAIN ds.pairwise : \A k2 \in DOMAIN ds.pairwise :
          ds.pairwise[k1].n = ds.pairwise[k2].n => k1 = k2
    /\ Cardinality(DOMAIN ds.pairwise)
           <= Cardinality({ds.meta_dict.n_atoms[m] : m \in 1..Len(ds.meta_dict.n_atoms)})

=============================================================================
